---- MODULE Spec2Model ----
(***************************************************************************)
(* MindFlow grid editor: the node collection, the pending input popup, the *)
(* selection and the pointer-driven drag state of components/GridEditor,   *)
(* with the popup state of components/NodeInput.  One action per event     *)
(* handler; every handler runs to completion on the state of the last      *)
(* render (React batches the setState calls of one handler).               *)
(***************************************************************************)
EXTENDS Integers, Sequences, FiniteSets, TLC

\* ---------------------------------------------------------------- constants
GRID_SIZE == 7
CENTER_COORD == 3

\* null / undefined for node ids (ids are 1, 2, ...)
Null == 0

\* number of ids crypto.randomUUID() hands out in one session
MaxIds == 4

\* side of the container's bounding rectangle in px (rect.left = rect.top = 0)
RectSize == 14

NodeIds == 1..MaxIds

\* the title App.handleCreate gives a new map: "会话 " and the time of day
\* (a string is the sequence of its characters; "U+4F1A" and "U+8BDD" stand
\* for the characters 会 and 话)
SessionTitle == <<"U+4F1A", "U+8BDD", " ", "1">>

\* the map record the editor was opened with (App.handleCreate: nodes: [])
mapData == [id |-> "map-1", title |-> SessionTitle, nodes |-> <<>>, lastModified |-> 0]

\* textarea values the user submits: "", " ", "a", " b"
Contents == {<<>>, <<" ">>, <<"a">>, <<" ", "b">>}

\* a pointer coordinate inside column (row) c of the grid
CellPx(c) == 2 * c + 1

\* (clientX, clientY) of the pointerup events: a point outside the rectangle,
\* a point on its right edge, and a point inside each of four cells: the
\* centre, two of its neighbours, and a cell two columns away from them
ReleasePoints ==
  {<<-1, -1>>, <<RectSize, CellPx(CENTER_COORD)>>} \cup
  {<<CellPx(c[1]), CellPx(c[2])>> : c \in {<<3, 3>>, <<4, 3>>, <<4, 4>>, <<6, 3>>}}

\* (clientX, clientY) of the pointerleave events: the pointer is on the edge
\* of the rectangle or outside it
LeavePoints == {<<-1, -1>>, <<RectSize, CellPx(CENTER_COORD)>>}

\* (clientX, clientY) of the pointermove events
MovePoints == {<<1, 1>>}

Buttons == {0, 2}

\* ------------------------------------------------------------------- colors
\* utils/colorUtils: a color is its hue in degrees and the amount of white
\* blended in (in percent points of fade applied).  One color of the palette
\* is modelled.
BASE_COLORS == <<[hue |-> 0, fade |-> 0]>>

adjustHue(color, degrees) == [color EXCEPT !.hue = (color.hue + degrees) % 360]

fadeColor(color, amount) == [color EXCEPT !.fade = color.fade + amount]

\* ------------------------------------------------------------------ state
VARIABLES
  nodes,           \* MindNode[]                       (GridEditor.tsx:14)
  activeInput,     \* <<>> (null) or <<[x, y, parentId, isEditing]>>   (:15)
  selectedNodeId,  \* Null or a node id                               (:16)
  dragState,       \* <<>> (null) or <<[sourceNodeId, currentPos]>>   (:20)
  isDraggingRef,   \* isDraggingRef.current                           (:26)
  popup,           \* <<>> or <<the state of the mounted NodeInput>>
  nextId,          \* the next id crypto.randomUUID() returns
  now,             \* Date.now()
  onSaveCalls,     \* the maps passed to onSave by the last handler
  maps,            \* the App's list of maps                    (App.tsx:10)
  lastEvent        \* history: the event handled last (never read by a handler)

vars == <<nodes, activeInput, selectedNodeId, dragState, isDraggingRef,
          popup, nextId, now, onSaveCalls, maps, lastEvent>>

\* ---------------------------------------------------------------- helpers
Abs(a) == IF a < 0 THEN 0 - a ELSE a

\* Array.prototype.find: <<>> (undefined) or <<the first element passing Test>>
Find(s, Test(_)) ==
  LET m == SelectSeq(s, Test) IN IF m = <<>> THEN <<>> ELSE <<Head(m)>>

\* Math.floor(a / b) for b > 0
FloorDiv(a, b) == IF a >= 0 THEN a \div b ELSE 0 - (((0 - a) + b - 1) \div b)

\* String.prototype.trim
RECURSIVE TrimStart(_)
TrimStart(s) == IF s # <<>> /\ Head(s) = " " THEN TrimStart(Tail(s)) ELSE s

RECURSIVE TrimEnd(_)
TrimEnd(s) ==
  IF s # <<>> /\ s[Len(s)] = " " THEN TrimEnd(SubSeq(s, 1, Len(s) - 1)) ELSE s

Trim(s) == TrimEnd(TrimStart(s))

getNodeAt(x, y) == Find(nodes, LAMBDA n : n.x = x /\ n.y = y)

nodeById(id) == Find(nodes, LAMBDA n : n.id = id)

\* currentPos is a percentage of the rectangle; it is kept here multiplied by
\* 2 * GRID_SIZE * RectSize / 100, so that cell centres ((x * CELL_PERCENT) +
\* HALF_CELL) and pointer positions are integers.

CellCentrePos(c) == (2 * c + 1) * RectSize

PointerPos(client) == client * 2 * GRID_SIZE

\* ------------------------------------------------------------------- Init
Init ==
  /\ nodes = mapData.nodes
  /\ activeInput = <<>>
  /\ selectedNodeId = Null
  /\ dragState = <<>>
  /\ isDraggingRef = FALSE
  /\ popup = <<>>
  /\ nextId = 1
  /\ now = 1
  /\ onSaveCalls = <<>>
  /\ maps = <<mapData>>
  /\ lastEvent = [name |-> "mount"]

\* ---------------------------------------------------- the NodeInput popup
\* initialColor of the NodeInput anchored at the cell of `input`
\* (GridEditor.tsx:308); a set, because the root's color is picked at random.
InitialColors(input) ==
  LET node == getNodeAt(input.x, input.y) IN
    IF node # <<>> THEN {node[1].color}
    ELSE IF input.parentId # Null THEN {BASE_COLORS[1]}
    ELSE {BASE_COLORS[i] : i \in DOMAIN BASE_COLORS}

\* the state of a NodeInput after its mount (NodeInput.tsx:22-25); request is
\* the call of getSuggestedThoughts this instance made last, with the pending
\* input it was made for
Mounted(c) ==
  [selectedColor |-> c, suggestions |-> <<>>, isLoadingAi |-> FALSE, request |-> <<>>]

\* setActiveInput(input) and the render that follows: the NodeInput anchored
\* in the cell of the input keeps its state while that cell stays the same,
\* and is mounted with its useState initial values otherwise.
SetActiveInput(input) ==
  /\ activeInput' = <<input>>
  /\ IF activeInput # <<>> /\ activeInput[1].x = input.x /\ activeInput[1].y = input.y
       THEN popup' = popup
       ELSE \E c \in InitialColors(input) : popup' = <<Mounted(c)>>

\* setActiveInput(null): the NodeInput is unmounted
ClearActiveInput ==
  /\ activeInput' = <<>>
  /\ popup' = <<>>

\* parentNode prop of the NodeInput (GridEditor.tsx:307)
parentNode ==
  IF activeInput # <<>> /\ activeInput[1].parentId # Null
    THEN nodeById(activeInput[1].parentId)
    ELSE <<>>

\* ------------------------------------------------------- pointer handlers
\* faulty variant of HandlePointerDown: starting a drag closes the pending input
HandlePointerDownClosingInput(button, nodeId) ==
  /\ nodeById(nodeId) # <<>>
  /\ onSaveCalls' = <<>>
  /\ IF button # 0
       THEN UNCHANGED <<dragState, isDraggingRef, activeInput, popup>>
       ELSE LET node == nodeById(nodeId) IN
         IF node = <<>>
           THEN UNCHANGED <<dragState, isDraggingRef, activeInput, popup>>
           ELSE /\ dragState' = <<[sourceNodeId |-> nodeId,
                                   currentPos |-> [x |-> CellCentrePos(node[1].x),
                                                   y |-> CellCentrePos(node[1].y)]]>>
                /\ isDraggingRef' = FALSE
                /\ ClearActiveInput
  /\ UNCHANGED <<nodes, selectedNodeId, nextId, now>>

HandlePointerDown(button, nodeId) ==
  /\ nodeById(nodeId) # <<>>          \* the handler sits on a rendered node
  /\ onSaveCalls' = <<>>
  /\ IF button # 0
       THEN UNCHANGED <<dragState, isDraggingRef>>
       ELSE LET node == nodeById(nodeId) IN
         IF node = <<>>
           THEN UNCHANGED <<dragState, isDraggingRef>>
           ELSE /\ dragState' = <<[sourceNodeId |-> nodeId,
                                   currentPos |-> [x |-> CellCentrePos(node[1].x),
                                                   y |-> CellCentrePos(node[1].y)]]>>
                /\ isDraggingRef' = FALSE
  /\ UNCHANGED <<nodes, activeInput, selectedNodeId, popup, nextId, now>>

\* faulty variant of HandleContainerPointerMove: the moved flag is set before
\* the test of dragState
HandleContainerPointerMoveFlagFirst(clientX, clientY) ==
  /\ onSaveCalls' = <<>>
  /\ isDraggingRef' = TRUE
  /\ IF dragState = <<>>
       THEN UNCHANGED dragState
       ELSE dragState' = <<[dragState[1] EXCEPT
                              !.currentPos = [x |-> PointerPos(clientX),
                                              y |-> PointerPos(clientY)]]>>
  /\ UNCHANGED <<nodes, activeInput, selectedNodeId, popup, nextId, now>>

HandleContainerPointerMove(clientX, clientY) ==
  /\ onSaveCalls' = <<>>
  /\ IF dragState = <<>>
       THEN UNCHANGED <<dragState, isDraggingRef>>
       ELSE /\ isDraggingRef' = TRUE
            /\ dragState' = <<[dragState[1] EXCEPT
                                 !.currentPos = [x |-> PointerPos(clientX),
                                                 y |-> PointerPos(clientY)]]>>
  /\ UNCHANGED <<nodes, activeInput, selectedNodeId, popup, nextId, now>>

\* faulty variant of DropTarget: the occupancy test (getNodeAt) is left out
DropTargetOnOccupied(x, y, sourceNode) ==
  IF x < 0 \/ x >= GRID_SIZE \/ y < 0 \/ y >= GRID_SIZE THEN <<>>
  ELSE LET dx == Abs(sourceNode.x - x)
           dy == Abs(sourceNode.y - y)
       IN IF dx <= 1 /\ dy <= 1 /\ (dx > 0 \/ dy > 0)
            THEN <<[x |-> x, y |-> y, parentId |-> sourceNode.id, isEditing |-> FALSE]>>
            ELSE <<>>

\* faulty variant of DropTarget: dx <= 1 || dy <= 1 in place of dx <= 1 && dy <= 1
DropTargetEitherAxis(x, y, sourceNode) ==
  IF x < 0 \/ x >= GRID_SIZE \/ y < 0 \/ y >= GRID_SIZE THEN <<>>
  ELSE IF getNodeAt(x, y) # <<>> THEN <<>>
  ELSE LET dx == Abs(sourceNode.x - x)
           dy == Abs(sourceNode.y - y)
       IN IF (dx <= 1 \/ dy <= 1) /\ (dx > 0 \/ dy > 0)
            THEN <<[x |-> x, y |-> y, parentId |-> sourceNode.id, isEditing |-> FALSE]>>
            ELSE <<>>

\* faulty variant of DropTarget: cells two steps away are accepted
DropTargetTwoSteps(x, y, sourceNode) ==
  IF x < 0 \/ x >= GRID_SIZE \/ y < 0 \/ y >= GRID_SIZE THEN <<>>
  ELSE IF getNodeAt(x, y) # <<>> THEN <<>>
  ELSE LET dx == Abs(sourceNode.x - x)
           dy == Abs(sourceNode.y - y)
       IN IF dx <= 2 /\ dy <= 2 /\ (dx > 0 \/ dy > 0)
            THEN <<[x |-> x, y |-> y, parentId |-> sourceNode.id, isEditing |-> FALSE]>>
            ELSE <<>>

\* the pending input handleAttemptDrop(x, y, sourceNode) opens: <<>> when it
\* returns without opening one
DropTarget(x, y, sourceNode) ==
  IF x < 0 \/ x >= GRID_SIZE \/ y < 0 \/ y >= GRID_SIZE THEN <<>>
  ELSE IF getNodeAt(x, y) # <<>> THEN <<>>
  ELSE LET dx == Abs(sourceNode.x - x)
           dy == Abs(sourceNode.y - y)
       IN IF dx <= 1 /\ dy <= 1 /\ (dx > 0 \/ dy > 0)
            THEN <<[x |-> x, y |-> y, parentId |-> sourceNode.id, isEditing |-> FALSE]>>
            ELSE <<>>

\* faulty variant of HandleAttemptDrop: the selection is cleared on every attempt
HandleAttemptDropDeselecting(x, y, sourceNode) ==
  LET target == DropTarget(x, y, sourceNode) IN
    /\ selectedNodeId' = Null
    /\ IF target # <<>>
         THEN SetActiveInput(target[1])
         ELSE UNCHANGED <<activeInput, popup>>

\* faulty variant of HandleAttemptDrop: an accepted drop keeps the selection
HandleAttemptDropKeepingSelection(x, y, sourceNode) ==
  LET target == DropTarget(x, y, sourceNode) IN
    IF target # <<>>
      THEN /\ SetActiveInput(target[1])
           /\ selectedNodeId' = selectedNodeId
      ELSE UNCHANGED <<activeInput, popup, selectedNodeId>>

HandleAttemptDrop(x, y, sourceNode) ==
  LET target == DropTarget(x, y, sourceNode) IN
    IF target # <<>>
      THEN /\ SetActiveInput(target[1])
           /\ selectedNodeId' = Null
      ELSE UNCHANGED <<activeInput, popup, selectedNodeId>>

\* faulty variant of HandleContainerPointerUp: a click does not close the pending input
HandleContainerPointerUpKeepingInput(clientX, clientY) ==
  /\ onSaveCalls' = <<>>
  /\ IF dragState = <<>>
       THEN UNCHANGED <<activeInput, popup, selectedNodeId, dragState, isDraggingRef>>
       ELSE
         LET sourceNode == nodeById(dragState[1].sourceNodeId) IN
           /\ IF isDraggingRef /\ sourceNode # <<>>
                THEN IF /\ clientX >= 0 /\ clientX <= RectSize
                        /\ clientY >= 0 /\ clientY <= RectSize
                       THEN LET gridX == FloorDiv(clientX * GRID_SIZE, RectSize)
                                gridY == FloorDiv(clientY * GRID_SIZE, RectSize)
                            IN HandleAttemptDrop(gridX, gridY, sourceNode[1])
                       ELSE UNCHANGED <<activeInput, popup, selectedNodeId>>
              ELSE IF ~isDraggingRef
                THEN /\ selectedNodeId' = dragState[1].sourceNodeId
                     /\ UNCHANGED <<activeInput, popup>>
                ELSE UNCHANGED <<activeInput, popup, selectedNodeId>>
           /\ dragState' = <<>>
           /\ isDraggingRef' = FALSE
  /\ UNCHANGED <<nodes, nextId, now>>

\* faulty variant of HandleContainerPointerUp: the moved flag is not reset
HandleContainerPointerUpKeepingFlag(clientX, clientY) ==
  /\ onSaveCalls' = <<>>
  /\ IF dragState = <<>>
       THEN UNCHANGED <<activeInput, popup, selectedNodeId, dragState, isDraggingRef>>
       ELSE
         LET sourceNode == nodeById(dragState[1].sourceNodeId) IN
           /\ IF isDraggingRef /\ sourceNode # <<>>
                THEN IF /\ clientX >= 0 /\ clientX <= RectSize
                        /\ clientY >= 0 /\ clientY <= RectSize
                       THEN LET gridX == FloorDiv(clientX * GRID_SIZE, RectSize)
                                gridY == FloorDiv(clientY * GRID_SIZE, RectSize)
                            IN HandleAttemptDrop(gridX, gridY, sourceNode[1])
                       ELSE UNCHANGED <<activeInput, popup, selectedNodeId>>
              ELSE IF ~isDraggingRef
                THEN /\ selectedNodeId' = dragState[1].sourceNodeId
                     /\ ClearActiveInput
                ELSE UNCHANGED <<activeInput, popup, selectedNodeId>>
           /\ dragState' = <<>>
           /\ UNCHANGED isDraggingRef
  /\ UNCHANGED <<nodes, nextId, now>>

\* faulty variant of HandleContainerPointerUp: gridX and gridY are passed transposed
HandleContainerPointerUpTransposed(clientX, clientY) ==
  /\ onSaveCalls' = <<>>
  /\ IF dragState = <<>>
       THEN UNCHANGED <<activeInput, popup, selectedNodeId, dragState, isDraggingRef>>
       ELSE
         LET sourceNode == nodeById(dragState[1].sourceNodeId) IN
           /\ IF isDraggingRef /\ sourceNode # <<>>
                THEN IF /\ clientX >= 0 /\ clientX <= RectSize
                        /\ clientY >= 0 /\ clientY <= RectSize
                       THEN LET gridX == FloorDiv(clientX * GRID_SIZE, RectSize)
                                gridY == FloorDiv(clientY * GRID_SIZE, RectSize)
                            IN HandleAttemptDrop(gridY, gridX, sourceNode[1])
                       ELSE UNCHANGED <<activeInput, popup, selectedNodeId>>
              ELSE IF ~isDraggingRef
                THEN /\ selectedNodeId' = dragState[1].sourceNodeId
                     /\ ClearActiveInput
                ELSE UNCHANGED <<activeInput, popup, selectedNodeId>>
           /\ dragState' = <<>>
           /\ isDraggingRef' = FALSE
  /\ UNCHANGED <<nodes, nextId, now>>

HandleContainerPointerUp(clientX, clientY) ==
  /\ onSaveCalls' = <<>>
  /\ IF dragState = <<>>
       THEN UNCHANGED <<activeInput, popup, selectedNodeId, dragState, isDraggingRef>>
       ELSE
         LET sourceNode == nodeById(dragState[1].sourceNodeId) IN
           /\ IF isDraggingRef /\ sourceNode # <<>>
                THEN IF /\ clientX >= 0 /\ clientX <= RectSize
                        /\ clientY >= 0 /\ clientY <= RectSize
                       THEN LET gridX == FloorDiv(clientX * GRID_SIZE, RectSize)
                                gridY == FloorDiv(clientY * GRID_SIZE, RectSize)
                            IN HandleAttemptDrop(gridX, gridY, sourceNode[1])
                       ELSE UNCHANGED <<activeInput, popup, selectedNodeId>>
              ELSE IF ~isDraggingRef
                THEN /\ selectedNodeId' = dragState[1].sourceNodeId
                     /\ ClearActiveInput
                ELSE UNCHANGED <<activeInput, popup, selectedNodeId>>
           /\ dragState' = <<>>
           /\ isDraggingRef' = FALSE
  /\ UNCHANGED <<nodes, nextId, now>>

\* faulty variant of HandleCreateRoot: the input is opened at (0, 0)
HandleCreateRootAtOrigin ==
  /\ getNodeAt(CENTER_COORD, CENTER_COORD) = <<>>
  /\ Len(nodes) = 0
  /\ onSaveCalls' = <<>>
  /\ IF Len(nodes) = 0
       THEN SetActiveInput([x |-> 0, y |-> 0, parentId |-> Null, isEditing |-> FALSE])
       ELSE UNCHANGED <<activeInput, popup>>
  /\ UNCHANGED <<nodes, selectedNodeId, dragState, isDraggingRef, nextId, now>>

HandleCreateRoot ==
  /\ getNodeAt(CENTER_COORD, CENTER_COORD) = <<>>   \* onClick is attached only
  /\ Len(nodes) = 0                                 \* to the empty centre of an empty map
  /\ onSaveCalls' = <<>>
  /\ IF Len(nodes) = 0
       THEN SetActiveInput([x |-> CENTER_COORD, y |-> CENTER_COORD,
                            parentId |-> Null, isEditing |-> FALSE])
       ELSE UNCHANGED <<activeInput, popup>>
  /\ UNCHANGED <<nodes, selectedNodeId, dragState, isDraggingRef, nextId, now>>

\* ------------------------------------------------- store operations
\* faulty variant of UpdatedNodes: the edited node's timestamp is refreshed
UpdatedNodesTouched(content, color) ==
  [i \in DOMAIN nodes |->
     IF nodes[i].id = selectedNodeId
       THEN [nodes[i] EXCEPT !.content = content, !.color = color,
                             !.timestamp = now + 1]
       ELSE nodes[i]]

\* faulty variant of UpdatedNodes: the content is put before the old content
UpdatedNodesPrepending(content, color) ==
  [i \in DOMAIN nodes |->
     IF nodes[i].id = selectedNodeId
       THEN [nodes[i] EXCEPT !.content = content \o nodes[i].content, !.color = color]
       ELSE nodes[i]]

\* updatedNodes of handleSaveNode: the node with the selected id gets the
\* content and the color, every other node is kept
UpdatedNodes(content, color) ==
  [i \in DOMAIN nodes |->
     IF nodes[i].id = selectedNodeId
       THEN [nodes[i] EXCEPT !.content = content, !.color = color]
       ELSE nodes[i]]

\* faulty variant of NewNode: depth = parent.depth, without the + 1
NewNodeAtParentDepth(content, color) ==
  LET parent == IF activeInput[1].parentId # Null
                  THEN nodeById(activeInput[1].parentId)
                  ELSE <<>>
      siblings == SelectSeq(nodes, LAMBDA n : n.parentId = parent[1].id)
      branchIndex == Len(siblings)
      finalColor ==
        IF parent # <<>>
          THEN IF Len(siblings) > 0
                 THEN fadeColor(adjustHue(parent[1].color, 45 * branchIndex), 15)
                 ELSE fadeColor(parent[1].color, 15)
          ELSE color
      depth == IF parent # <<>> THEN parent[1].depth ELSE 0
  IN [id |-> nextId,
      x |-> activeInput[1].x,
      y |-> activeInput[1].y,
      content |-> content,
      color |-> finalColor,
      parentId |-> activeInput[1].parentId,
      depth |-> depth,
      timestamp |-> now]

\* faulty variant of NewNode: the content is stored trimmed
NewNodeTrimmed(content, color) ==
  LET parent == IF activeInput[1].parentId # Null
                  THEN nodeById(activeInput[1].parentId)
                  ELSE <<>>
      siblings == SelectSeq(nodes, LAMBDA n : n.parentId = parent[1].id)
      branchIndex == Len(siblings)
      finalColor ==
        IF parent # <<>>
          THEN IF Len(siblings) > 0
                 THEN fadeColor(adjustHue(parent[1].color, 45 * branchIndex), 15)
                 ELSE fadeColor(parent[1].color, 15)
          ELSE color
      depth == IF parent # <<>> THEN parent[1].depth + 1 ELSE 0
  IN [id |-> nextId,
      x |-> activeInput[1].x,
      y |-> activeInput[1].y,
      content |-> Trim(content),
      color |-> finalColor,
      parentId |-> activeInput[1].parentId,
      depth |-> depth,
      timestamp |-> now]

\* faulty variant of NewNode: every new branch is shifted by 45 degrees
NewNodeFixedShift(content, color) ==
  LET parent == IF activeInput[1].parentId # Null
                  THEN nodeById(activeInput[1].parentId)
                  ELSE <<>>
      siblings == SelectSeq(nodes, LAMBDA n : n.parentId = parent[1].id)
      branchIndex == Len(siblings)
      finalColor ==
        IF parent # <<>>
          THEN IF Len(siblings) > 0
                 THEN fadeColor(adjustHue(parent[1].color, 45), 15)
                 ELSE fadeColor(parent[1].color, 15)
          ELSE color
      depth == IF parent # <<>> THEN parent[1].depth + 1 ELSE 0
  IN [id |-> nextId,
      x |-> activeInput[1].x,
      y |-> activeInput[1].y,
      content |-> content,
      color |-> finalColor,
      parentId |-> activeInput[1].parentId,
      depth |-> depth,
      timestamp |-> now]

\* newNode of handleSaveNode: its color and depth come from the parent
NewNode(content, color) ==
  LET parent == IF activeInput[1].parentId # Null
                  THEN nodeById(activeInput[1].parentId)
                  ELSE <<>>
      siblings == SelectSeq(nodes, LAMBDA n : n.parentId = parent[1].id)
      branchIndex == Len(siblings)
      finalColor ==
        IF parent # <<>>
          THEN IF Len(siblings) > 0
                 THEN fadeColor(adjustHue(parent[1].color, 45 * branchIndex), 15)
                 ELSE fadeColor(parent[1].color, 15)
          ELSE color
      depth == IF parent # <<>> THEN parent[1].depth + 1 ELSE 0
  IN [id |-> nextId,
      x |-> activeInput[1].x,
      y |-> activeInput[1].y,
      content |-> content,
      color |-> finalColor,
      parentId |-> activeInput[1].parentId,
      depth |-> depth,
      timestamp |-> now]

\* handleSaveNode(content, color): edit in place, or create a node
HandleSaveNode(content, color) ==
  IF activeInput = <<>>
    THEN UNCHANGED <<nodes, activeInput, popup, selectedNodeId, nextId, now, onSaveCalls>>
  ELSE IF activeInput[1].isEditing /\ selectedNodeId # Null
    THEN LET updatedNodes == UpdatedNodes(content, color)
         IN /\ nodes' = updatedNodes
            /\ onSaveCalls' = <<[mapData EXCEPT !.nodes = updatedNodes,
                                                !.lastModified = now]>>
            /\ ClearActiveInput
            /\ UNCHANGED <<selectedNodeId, nextId, now>>
  ELSE LET newNode == NewNode(content, color)
           newNodes == Append(nodes, newNode)
       IN /\ nextId <= MaxIds
          /\ nodes' = newNodes
          /\ onSaveCalls' = <<[mapData EXCEPT !.nodes = newNodes,
                                              !.lastModified = now]>>
          /\ ClearActiveInput
          /\ selectedNodeId' = newNode.id
          /\ nextId' = nextId + 1
          /\ now' = now + 1

RECURSIVE getDescendantIds(_), FlatMapDescendantIds(_)
\* childIds.flatMap(id => getDescendantIds(id))
FlatMapDescendantIds(ids) ==
  IF ids = <<>> THEN <<>>
  ELSE getDescendantIds(Head(ids)) \o FlatMapDescendantIds(Tail(ids))

\* faulty variant of getDescendantIds: the children only, without the recursion
getChildIds(parentId) ==
  LET children == SelectSeq(nodes, LAMBDA n : n.parentId = parentId)
  IN [i \in DOMAIN children |-> children[i].id]

getDescendantIds(parentId) ==
  LET children == SelectSeq(nodes, LAMBDA n : n.parentId = parentId)
      childIds == [i \in DOMAIN children |-> children[i].id]
      grandChildIds == FlatMapDescendantIds(childIds)
  IN childIds \o grandChildIds

Includes(s, e) == \E i \in DOMAIN s : s[i] = e

\* the node the bottom panel shows (GridEditor.tsx:321)
selectedNode == nodeById(selectedNodeId)

\* faulty variant of HandleDeleteNode: the node alone is removed
HandleDeleteNodeOnly(id) ==
  LET newNodes == SelectSeq(nodes, LAMBDA n : n.id # id)
  IN /\ nodes' = newNodes
     /\ onSaveCalls' = <<[mapData EXCEPT !.nodes = newNodes, !.lastModified = now]>>
     /\ selectedNodeId' = Null
     /\ UNCHANGED <<activeInput, popup, dragState, isDraggingRef, nextId, now>>

\* faulty variant of HandleDeleteNode: the deletion is not passed to onSave
HandleDeleteNodeUnsaved(id) ==
  LET idsToDelete == <<id>> \o getDescendantIds(id)
      newNodes == SelectSeq(nodes, LAMBDA n : ~Includes(idsToDelete, n.id))
  IN /\ nodes' = newNodes
     /\ onSaveCalls' = <<>>
     /\ selectedNodeId' = Null
     /\ UNCHANGED <<activeInput, popup, dragState, isDraggingRef, nextId, now>>

HandleDeleteNode(id) ==
  LET idsToDelete == <<id>> \o getDescendantIds(id)
      newNodes == SelectSeq(nodes, LAMBDA n : ~Includes(idsToDelete, n.id))
  IN /\ nodes' = newNodes
     /\ onSaveCalls' = <<[mapData EXCEPT !.nodes = newNodes, !.lastModified = now]>>
     /\ selectedNodeId' = Null
     /\ UNCHANGED <<activeInput, popup, dragState, isDraggingRef, nextId, now>>

HandleEditSelected ==
  LET node == nodeById(selectedNodeId) IN
    /\ onSaveCalls' = <<>>
    /\ IF node # <<>>
         THEN SetActiveInput([x |-> node[1].x, y |-> node[1].y,
                              parentId |-> node[1].parentId, isEditing |-> TRUE])
         ELSE UNCHANGED <<activeInput, popup>>
    /\ UNCHANGED <<nodes, selectedNodeId, dragState, isDraggingRef, nextId, now>>

\* ------------------------------------------------------ NodeInput handlers
\* a click on a palette button; the palette is rendered only without parentNode
SetSelectedColor(c) ==
  /\ popup # <<>>
  /\ parentNode = <<>>
  /\ popup' = <<[popup[1] EXCEPT !.selectedColor = c]>>
  /\ onSaveCalls' = <<>>
  /\ UNCHANGED <<nodes, activeInput, selectedNodeId, dragState, isDraggingRef, nextId, now>>

\* faulty variant of HandleSubmit: onSave is called whatever the content
HandleSubmitUnchecked(content) ==
  /\ popup # <<>>
  /\ HandleSaveNode(content, popup[1].selectedColor)
  /\ UNCHANGED <<dragState, isDraggingRef>>

\* the form's submit, or Enter in the textarea, with `content` in the textarea
HandleSubmit(content) ==
  /\ popup # <<>>
  /\ IF Trim(content) # <<>>
       THEN HandleSaveNode(content, popup[1].selectedColor)
       ELSE UNCHANGED <<nodes, activeInput, popup, selectedNodeId, nextId, now>>
              /\ onSaveCalls' = <<>>
  /\ UNCHANGED <<dragState, isDraggingRef>>

\* faulty variant of OnCancel: the selection is cleared with the input
OnCancelDeselecting ==
  /\ popup # <<>>
  /\ ClearActiveInput
  /\ selectedNodeId' = Null
  /\ onSaveCalls' = <<>>
  /\ UNCHANGED <<nodes, dragState, isDraggingRef, nextId, now>>

\* onCancel={() => setActiveInput(null)}
OnCancel ==
  /\ popup # <<>>
  /\ ClearActiveInput
  /\ onSaveCalls' = <<>>
  /\ UNCHANGED <<nodes, selectedNodeId, dragState, isDraggingRef, nextId, now>>

\* ------------------------------------------------- suggestion service
\* the warning string getSuggestedThoughts returns without a client
ApiKeyHint == <<"请检查 API Key">>

\* response.text of the model's answers: "", "a|b", " a | |b"
ResponseTexts ==
  {<<>>, <<"a", "|", "b">>, <<" ", "a", " ", "|", " ", "|", "b">>}

\* what a call of the service meets: no API_KEY, an answer, or an exception
ServiceOutcomes ==
  {[kind |-> "noKey"], [kind |-> "error"]} \cup
  {[kind |-> "answer", text |-> t] : t \in ResponseTexts}

\* String.prototype.split('|')
RECURSIVE Split(_)
Split(text) ==
  LET bars == {i \in DOMAIN text : text[i] = "|"} IN
    IF bars = {} THEN <<text>>
    ELSE LET i == CHOOSE k \in bars : \A m \in bars : k <= m
         IN <<SubSeq(text, 1, i - 1)>> \o Split(SubSeq(text, i + 1, Len(text)))

\* faulty variant of getSuggestedThoughts: the catch block returns the warning
getSuggestedThoughtsWarningOnError(currentContent, contextNodes, outcome) ==
  IF outcome.kind = "noKey" THEN <<ApiKeyHint>>
  ELSE IF outcome.kind = "error" THEN <<ApiKeyHint>>
  ELSE LET parts == Split(outcome.text)
           trimmed == [i \in DOMAIN parts |-> Trim(parts[i])]
       IN SelectSeq(trimmed, LAMBDA t : Len(t) > 0)

\* getSuggestedThoughts(currentContent, contextNodes) under an outcome of the
\* service
getSuggestedThoughts(currentContent, contextNodes, outcome) ==
  IF outcome.kind = "noKey" THEN <<ApiKeyHint>>
  ELSE IF outcome.kind = "error" THEN <<>>
  ELSE LET parts == Split(outcome.text)
           trimmed == [i \in DOMAIN parts |-> Trim(parts[i])]
       IN SelectSeq(trimmed, LAMBDA t : Len(t) > 0)

\* handleAiSuggest up to its await; the button is rendered with a parentNode
\* and without suggestions, and is disabled while isLoadingAi
HandleAiSuggest ==
  /\ popup # <<>>
  /\ parentNode # <<>>
  /\ popup[1].suggestions = <<>>
  /\ ~popup[1].isLoadingAi
  /\ popup' = <<[popup[1] EXCEPT
                   !.isLoadingAi = TRUE,
                   !.request = <<[currentContent |-> parentNode[1].content,
                                  allNodes |-> nodes,
                                  input |-> activeInput[1]]>>]>>
  /\ onSaveCalls' = <<>>
  /\ UNCHANGED <<nodes, activeInput, selectedNodeId, dragState, isDraggingRef, nextId, now>>

\* handleAiSuggest after its await: the promise of the instance still mounted
\* resolves (the promise of an unmounted instance sets no state)
\* faulty variant of HandleAiResult: the arrival closes the pending input
HandleAiResultClosing(outcome) ==
  /\ popup # <<>>
  /\ popup[1].isLoadingAi
  /\ ClearActiveInput
  /\ onSaveCalls' = <<>>
  /\ UNCHANGED <<nodes, selectedNodeId, dragState, isDraggingRef, nextId, now>>

HandleAiResult(outcome) ==
  /\ popup # <<>>
  /\ popup[1].isLoadingAi
  /\ LET results == getSuggestedThoughts(popup[1].request[1].currentContent,
                                         popup[1].request[1].allNodes, outcome)
     IN popup' = <<[popup[1] EXCEPT !.suggestions = results, !.isLoadingAi = FALSE]>>
  /\ onSaveCalls' = <<>>
  /\ UNCHANGED <<nodes, activeInput, selectedNodeId, dragState, isDraggingRef, nextId, now>>

\* ------------------------------------------------------------ the events
\* The editor hands its snapshots to the onSave prop (onSaveCalls); what the
\* App does with a snapshot is handleSaveMap below, which SpecMaps drives.
Event(name) == lastEvent' = [name |-> name] /\ UNCHANGED maps

\* a pointerup / pointerleave at p; source and moved are the drag's source
\* node id (Null without drag) and isDraggingRef.current as the handler finds
\* them
PointerEvent(name, p) ==
  /\ lastEvent' = [name |-> name, clientX |-> p[1], clientY |-> p[2],
                   source |-> IF dragState = <<>> THEN Null ELSE dragState[1].sourceNodeId,
                   moved |-> isDraggingRef]
  /\ UNCHANGED maps

PointerDown ==
  \E b \in Buttons, id \in NodeIds : HandlePointerDown(b, id) /\ Event("pointerdown")

PointerMove ==
  \E p \in MovePoints : HandleContainerPointerMove(p[1], p[2]) /\ Event("pointermove")

PointerUp ==
  \E p \in ReleasePoints :
    HandleContainerPointerUp(p[1], p[2]) /\ PointerEvent("pointerup", p)

PointerLeave ==
  \E p \in LeavePoints :
    HandleContainerPointerUp(p[1], p[2]) /\ PointerEvent("pointerleave", p)

CreateRoot == HandleCreateRoot /\ Event("createRoot")

PickColor ==
  \E i \in DOMAIN BASE_COLORS : SetSelectedColor(BASE_COLORS[i]) /\ Event("pickColor")

Submit == \E content \in Contents : HandleSubmit(content) /\ Event("submit")

Cancel == OnCancel /\ Event("cancel")

\* the delete button of the bottom panel, rendered while selectedNode exists
DeleteSelected ==
  selectedNode # <<>> /\ HandleDeleteNode(selectedNode[1].id) /\ Event("delete")

\* the edit button of the bottom panel, rendered while selectedNode exists
EditSelected == selectedNode # <<>> /\ HandleEditSelected /\ Event("edit")

Next ==
  \/ PointerDown
  \/ PointerMove
  \/ PointerUp
  \/ PointerLeave
  \/ CreateRoot
  \/ PickColor
  \/ Submit
  \/ Cancel
  \/ DeleteSelected
  \/ EditSelected

Spec == Init /\ [][Next]_vars

\* the editor with the suggestion button of the popup in use
AiSuggest == HandleAiSuggest /\ Event("aiSuggest")

AiResult ==
  \E outcome \in ServiceOutcomes :
    /\ HandleAiResult(outcome)
    /\ lastEvent' = [name |-> "aiResult", outcome |-> outcome]
    /\ UNCHANGED maps

\* number of ids handed out in a session with the suggestion button in use
MaxAiIds == 2

NextAi == (Next /\ nextId' <= MaxAiIds + 1) \/ AiSuggest \/ AiResult

SpecAi == Init /\ [][NextAi]_vars

\* --------------------------------------------------------- the App's maps
\* String.prototype.startsWith
StartsWith(s, prefix) ==
  Len(s) >= Len(prefix) /\ SubSeq(s, 1, Len(prefix)) = prefix

\* String.prototype.slice(0, end)
Slice(s, end) == SubSeq(s, 1, IF Len(s) < end THEN Len(s) ELSE end)

\* the length a title taken from the centre node is cut to       (App.tsx:67)
TitleLimit == 20

\* mapToSave of handleSaveMap: the snapshot, named after its centre node when
\* its title is still the default one                        (App.tsx:60-69)
mapToSave(updatedMap) ==
  LET centerNode == SelectSeq(updatedMap.nodes, LAMBDA n : n.depth = 0)
  IN IF /\ \/ StartsWith(updatedMap.title, <<"S", "e", "s", "s", "i", "o", "n">>)
             \/ StartsWith(updatedMap.title, <<"U+4F1A", "U+8BDD">>)
          /\ Len(updatedMap.nodes) > 0
          /\ centerNode # <<>>
       THEN [updatedMap EXCEPT
               !.title = Slice(centerNode[1].content, TitleLimit)
                           \o (IF Len(centerNode[1].content) > TitleLimit
                                 THEN <<".", ".", ".">> ELSE <<>>)]
       ELSE updatedMap

\* handleSaveMap adding the snapshot when no entry has its id
handleSaveMapUpserting(prev, updatedMap) ==
  IF \E i \in DOMAIN prev : prev[i].id = updatedMap.id
    THEN [i \in DOMAIN prev |->
            IF prev[i].id = mapToSave(updatedMap).id THEN mapToSave(updatedMap) ELSE prev[i]]
    ELSE <<mapToSave(updatedMap)>> \o prev

\* the list setMaps installs: prev.map(m => m.id === mapToSave.id ? mapToSave
\* : m)                                                          (App.tsx:71)
handleSaveMap(prev, updatedMap) ==
  [i \in DOMAIN prev |->
     IF prev[i].id = mapToSave(updatedMap).id THEN mapToSave(updatedMap) ELSE prev[i]]

\* ids of the maps of the list and of the snapshots
MapIds == {"map-1", "map-2", "map-3"}

\* number of maps in the list at the start
MaxMaps == 2

\* a content longer than TitleLimit
LongContent == [i \in 1..(TitleLimit + 1) |-> "x"]

CenterNode(content) ==
  [id |-> 1, x |-> CENTER_COORD, y |-> CENTER_COORD, content |-> content,
   color |-> BASE_COLORS[1], parentId |-> Null, depth |-> 0, timestamp |-> 1]

\* the node lists of the snapshots: no node, a centre node with a child, a
\* centre node with a long content
SnapshotNodes ==
  {<<>>,
   <<CenterNode(<<"a">>),
     [id |-> 2, x |-> CENTER_COORD + 1, y |-> CENTER_COORD, content |-> <<"b">>,
      color |-> fadeColor(BASE_COLORS[1], 15), parentId |-> 1, depth |-> 1,
      timestamp |-> 2]>>,
   <<CenterNode(LongContent)>>}

\* titles a map is listed with before its first save: the one handleCreate
\* gives, and the "Session" one of maps found in storage
DefaultTitles == {SessionTitle, <<"S", "e", "s", "s", "i", "o", "n">>}

\* the snapshots the editor passes: {...mapData, nodes, lastModified}, with
\* the title mapData had (a default one, or one taken from a centre node)
Snapshots ==
  [id : MapIds, title : DefaultTitles \cup {<<"a">>}, nodes : SnapshotNodes,
   lastModified : {2}]

\* lists of maps as handleCreate made them, with distinct ids
MapLists ==
  UNION {{l \in [1..n -> [id : MapIds, title : DefaultTitles, nodes : {<<>>},
                          lastModified : {1}]] :
            \A i, j \in 1..n : l[i].id = l[j].id => i = j} : n \in 0..MaxMaps}

\* the App with its list of maps; no editor event is taken
InitMaps ==
  /\ maps \in MapLists
  /\ nodes = <<>>
  /\ activeInput = <<>>
  /\ selectedNodeId = Null
  /\ dragState = <<>>
  /\ isDraggingRef = FALSE
  /\ popup = <<>>
  /\ nextId = 1
  /\ now = 1
  /\ onSaveCalls = <<>>
  /\ lastEvent = [name |-> "mount"]

\* onSave(updatedMap) reaches the App
SaveMap ==
  \E updatedMap \in Snapshots :
    /\ maps' = handleSaveMap(maps, updatedMap)
    /\ lastEvent' = [name |-> "saveMap", updatedMap |-> updatedMap]
    /\ UNCHANGED <<nodes, activeInput, selectedNodeId, dragState, isDraggingRef,
                   popup, nextId, now, onSaveCalls>>

NextMaps == SaveMap

SpecMaps == InitMaps /\ [][NextMaps]_vars

\* ================================================================ claims
NodeIdsPresent == {nodes[i].id : i \in DOMAIN nodes}

RootIndexes == {i \in DOMAIN nodes : nodes[i].parentId = Null}

\* following parentId from the node with this id reaches a node without parent,
\* through nodes of the collection only and without visiting one twice
RECURSIVE ReachesRoot(_, _)
ReachesRoot(id, visited) ==
  LET n == nodeById(id) IN
    /\ n # <<>>
    /\ id \notin visited
    /\ \/ n[1].parentId = Null
       \/ ReachesRoot(n[1].parentId, visited \cup {id})

\* C1: the node set is a tree: if it is not empty exactly one node has
\* parentId = null, every other node's parentId is the id of a node of the
\* set, and following parentId from any node reaches the root without
\* visiting a node twice.
C1_NodeSetIsTree ==
  nodes # <<>> =>
    /\ Cardinality(RootIndexes) = 1
    /\ \A i \in DOMAIN nodes :
         /\ nodes[i].parentId # Null => nodes[i].parentId \in NodeIdsPresent
         /\ ReachesRoot(nodes[i].id, {})

\* a tree that survived a deletion: two nodes are left, a third was removed
C1_Witness ==
  /\ Len(nodes) = 2
  /\ nextId = 4
  /\ nodes[2].parentId = nodes[1].id

\* C2: no two nodes share a grid coordinate, and every node lies on the grid.
C2_OneNodePerCell ==
  /\ \A i, j \in DOMAIN nodes :
       (nodes[i].x = nodes[j].x /\ nodes[i].y = nodes[j].y) => i = j
  /\ \A i \in DOMAIN nodes :
       /\ nodes[i].x \in 0..(GRID_SIZE - 1)
       /\ nodes[i].y \in 0..(GRID_SIZE - 1)

\* three nodes on three cells, the third placed after a drop on the grid
C2_Witness ==
  /\ Len(nodes) = 3
  /\ lastEvent.name = "submit"
  /\ onSaveCalls # <<>>
  /\ selectedNodeId = nodes[3].id

\* C6: the root has depth 0 and every other node has its parent's depth + 1.
C6_DepthIsParentDepthPlusOne ==
  \A i \in DOMAIN nodes :
    IF nodes[i].parentId = Null
      THEN nodes[i].depth = 0
      ELSE \E j \in DOMAIN nodes :
             /\ nodes[j].id = nodes[i].parentId
             /\ nodes[i].depth = nodes[j].depth + 1

\* a grandchild of the root (depth 2) in a collection an edit has just changed
C6_Witness ==
  /\ \E i \in DOMAIN nodes : nodes[i].depth = 2
  /\ lastEvent.name = "submit"
  /\ onSaveCalls # <<>>
  /\ Len(nodes) = 3
  /\ selectedNodeId # nodes[3].id

\* ------------------------------------------------------------ placement
Max(a, b) == IF a >= b THEN a ELSE b

InBounds(x, y) == x \in 0..(GRID_SIZE - 1) /\ y \in 0..(GRID_SIZE - 1)

Occupied(x, y) == \E i \in DOMAIN nodes : nodes[i].x = x /\ nodes[i].y = y

ChebyshevDistance(n, x, y) == Max(Abs(n.x - x), Abs(n.y - y))

\* the placement rule of the claim
ValidPlacement(x, y, S) ==
  InBounds(x, y) /\ ~Occupied(x, y) /\ ChebyshevDistance(S, x, y) = 1

PendingCreation(x, y, S) ==
  <<[x |-> x, y |-> y, parentId |-> S.id, isEditing |-> FALSE]>>

InsideRect(p) == p[1] \in 0..RectSize /\ p[2] \in 0..RectSize

\* the column (row) whose strip of the rectangle holds the pointer coordinate
ColumnOf(px) ==
  CHOOSE c \in 0..GRID_SIZE : c * RectSize <= px * GRID_SIZE /\ px * GRID_SIZE < (c + 1) * RectSize

\* a drag with movement from a node of the collection is in progress
DraggingMoved ==
  dragState # <<>> /\ isDraggingRef /\ nodeById(dragState[1].sourceNodeId) # <<>>

DragSource == nodeById(dragState[1].sourceNodeId)[1]

\* this step handles a pointerup or a pointerleave
IsRelease == lastEvent'.name \in {"pointerup", "pointerleave"}

\* the point of the release this step handles
ReleasePoint == <<lastEvent'.clientX, lastEvent'.clientY>>

\* this step releases a drag with movement on a point that maps to a cell the
\* placement rule accepts
ValidRelease ==
  /\ IsRelease
  /\ DraggingMoved
  /\ InsideRect(ReleasePoint)
  /\ ValidPlacement(ColumnOf(ReleasePoint[1]), ColumnOf(ReleasePoint[2]), DragSource)

\* this step releases a drag with movement on a point outside the rectangle,
\* or on a cell that is off the grid, occupied, or not a neighbour of the source
InvalidRelease ==
  /\ IsRelease
  /\ DraggingMoved
  /\ \/ ~InsideRect(ReleasePoint)
     \/ ~ValidPlacement(ColumnOf(ReleasePoint[1]), ColumnOf(ReleasePoint[2]), DragSource)

ReleaseCellInput ==
  PendingCreation(ColumnOf(ReleasePoint[1]), ColumnOf(ReleasePoint[2]), DragSource)

\* while a drag with movement from S is in progress: what a release on each
\* cell of the grid, and of the ring around it, would be answered
C3_Decision ==
  DraggingMoved =>
    \A x, y \in (0 - 1)..GRID_SIZE :
      DropTarget(x, y, DragSource) =
        IF ValidPlacement(x, y, DragSource)
          THEN PendingCreation(x, y, DragSource)
          ELSE <<>>

C3_Release ==
  /\ ValidRelease => activeInput' = ReleaseCellInput
  /\ (InvalidRelease /\ InsideRect(ReleasePoint)) => activeInput' = activeInput

\* C3: a placement request for (x, y) from node S opens the pending input
\* (x, y, parentId = S.id) if and only if (x, y) is on the grid, no node is on
\* it and max(|S.x - x|, |S.y - y|) = 1: for every cell a drag from S could
\* be released on, and for every release that happens.
C3_PlacementAcceptedIffValid == []C3_Decision /\ [][C3_Release]_vars

\* a placement on a diagonal neighbour has been accepted
C3_Witness ==
  /\ activeInput # <<>>
  /\ ~activeInput[1].isEditing
  /\ lastEvent.name = "pointerup"
  /\ lastEvent.moved
  /\ \E i \in DOMAIN nodes :
       /\ nodes[i].id = activeInput[1].parentId
       /\ nodes[i].id = lastEvent.source
       /\ Abs(nodes[i].x - activeInput[1].x) = 1
       /\ Abs(nodes[i].y - activeInput[1].y) = 1

\* ------------------------------------------------------------- deletion
\* the parentId chain of the node with this id leads to x (or it is x)
RECURSIVE ChainLeadsTo(_, _, _)
ChainLeadsTo(id, x, fuel) ==
  \/ id = x
  \/ /\ fuel > 0
     /\ LET n == nodeById(id) IN
          /\ n # <<>>
          /\ n[1].parentId # Null
          /\ ChainLeadsTo(n[1].parentId, x, fuel - 1)

Survivors(x) == SelectSeq(nodes, LAMBDA n : ~ChainLeadsTo(n.id, x, Len(nodes)))

C4_Delete ==
  DeleteSelected =>
    /\ nodes' = Survivors(selectedNodeId)
    /\ selectedNode[1].parentId = Null => nodes' = <<>>

C4_RootEntry == nodes = <<>> => ENABLED CreateRoot

\* C4: deleting node x removes exactly x and every node whose parentId chain
\* leads to x and keeps the others as they were, in their order; deleting the
\* root empties the collection, and with an empty collection the root can be
\* created again.
C4_DeleteRemovesExactlySubtree == []C4_RootEntry /\ [][C4_Delete]_vars

\* a delete has just removed nodes and left others
C4_Witness ==
  /\ lastEvent.name = "delete"
  /\ Len(nodes) >= 1
  /\ nextId > Len(nodes) + 1

\* ------------------------------------------------------------- the root
C5_RootAtCentre ==
  /\ \A i \in DOMAIN nodes :
       nodes[i].parentId = Null =>
         nodes[i].x = CENTER_COORD /\ nodes[i].y = CENTER_COORD /\ nodes[i].depth = 0
  /\ (activeInput # <<>> /\ ~activeInput[1].isEditing /\ activeInput[1].parentId = Null)
       => nodes = <<>>

C5_RootCreation ==
  (Len(nodes') = Len(nodes) + 1 /\ nodes'[Len(nodes')].parentId = Null) =>
    /\ nodes = <<>>
    /\ nodes'[1].x = CENTER_COORD /\ nodes'[1].y = CENTER_COORD
    /\ nodes'[1].depth = 0

\* C5: a node without parent is created only in an empty collection and only
\* at the centre; the root creation input is never open while a node exists,
\* and the root always occupies the centre cell.
C5_RootOnlyWhenEmptyAtCentre == []C5_RootAtCentre /\ [][C5_RootCreation]_vars

\* a second root, created after the first one was deleted
C5_Witness ==
  /\ Len(nodes) >= 1
  /\ nodes[1].parentId = Null
  /\ nodes[1].id > 1

\* ------------------------------------------------------------ gestures
C7_Click ==
  (IsRelease /\ dragState # <<>> /\ ~isDraggingRef) =>
    /\ dragState' = <<>>
    /\ ~isDraggingRef'
    /\ selectedNodeId' = dragState[1].sourceNodeId
    /\ activeInput' = <<>>
    /\ nodes' = nodes
    /\ onSaveCalls' = <<>>

\* C7: a pointerDown on node N followed by a pointerUp with no pointerMove in
\* between ends with no drag in progress, N selected and no pending input
\* open; it opens no pending input and leaves the node collection unchanged.
C7_ClickSelects == [][C7_Click]_vars

\* a click on a node, made while a pending input was open, has just selected it
C7_Witness ==
  /\ lastEvent.name = "pointerup"
  /\ lastEvent.source # Null
  /\ ~lastEvent.moved
  /\ selectedNodeId = lastEvent.source
  /\ nodeById(selectedNodeId) # <<>>
  /\ Len(nodes) >= 2
  /\ selectedNodeId # nodes[Len(nodes)].id

C8_Drop ==
  ValidRelease =>
    /\ activeInput' = ReleaseCellInput
    /\ dragState' = <<>>
    /\ nodes' = nodes

C8_UntilConfirm ==
  (activeInput # <<>> /\ ~activeInput[1].isEditing /\ nodes' # nodes) =>
    lastEvent'.name = "submit"

\* C8: a drag from node S released on a cell that passes the placement rule
\* ends with the pending input for exactly that cell with parentId = S.id and
\* no drag in progress, and adds no node: while the pending input of a
\* creation is open, only a confirm changes the node collection.
C8_ValidDropOpensPendingInput == [][C8_Drop /\ C8_UntilConfirm]_vars

\* the drag from the second node to the free neighbour of the root has just
\* been accepted
C8_Witness ==
  /\ lastEvent.name = "pointerup"
  /\ lastEvent.moved
  /\ dragState = <<>>
  /\ Len(nodes) = 2
  /\ activeInput # <<>>
  /\ activeInput[1].parentId = nodes[2].id
  /\ lastEvent.source = nodes[2].id
  /\ ~Occupied(activeInput[1].x, activeInput[1].y)

C9_Gesture ==
  lastEvent'.name \in {"pointerdown", "pointermove"} =>
    /\ UNCHANGED <<nodes, selectedNodeId, activeInput>>
    /\ onSaveCalls' = <<>>

C9_DiscardedToIdle ==
  InvalidRelease =>
    /\ dragState' = <<>>
    /\ activeInput' = <<>>
    /\ selectedNodeId' = selectedNodeId
    /\ nodes' = nodes
    /\ onSaveCalls' = <<>>

C9_Discarded ==
  InvalidRelease =>
    /\ dragState' = <<>>
    /\ activeInput' = activeInput
    /\ selectedNodeId' = selectedNodeId
    /\ nodes' = nodes
    /\ onSaveCalls' = <<>>

\* C9 as claimed: after a drag with movement is released on an invalid point
\* no drag is in progress and no pending input is open, the selected node id
\* and the node collection are what they were, and nothing was saved.
C9_InvalidDropLeavesIdle == [][C9_Gesture /\ C9_DiscardedToIdle]_vars

\* C9 as amended: after a drag with movement is released on an invalid point
\* no drag is in progress, and the pending input (open or not), the selected
\* node id and the node collection are what they were before the gesture;
\* nothing was saved.
C9_InvalidDropChangesNothing == [][C9_Gesture /\ C9_Discarded]_vars

\* a drag with movement has just been released on an occupied cell while the
\* edit input of the selected node was open
C9_Witness ==
  /\ lastEvent.name = "pointerup"
  /\ lastEvent.moved
  /\ nodeById(lastEvent.source) # <<>>
  /\ InsideRect(<<lastEvent.clientX, lastEvent.clientY>>)
  /\ Occupied(ColumnOf(lastEvent.clientX), ColumnOf(lastEvent.clientY))
  /\ dragState = <<>>
  /\ activeInput # <<>>
  /\ activeInput[1].isEditing
  /\ selectedNodeId # Null

\* ------------------------------------------------------------- confirm
NonBlank(content) == \E i \in DOMAIN content : content[i] # " "

C10_Create ==
  \A c \in Contents :
    (/\ activeInput # <<>>
     /\ ~activeInput[1].isEditing
     /\ NonBlank(c)
     /\ lastEvent'.name = "submit"
     /\ HandleSubmit(c)) =>
      LET new == nodes'[Len(nodes')] IN
        /\ Len(nodes') = Len(nodes) + 1
        /\ SubSeq(nodes', 1, Len(nodes)) = nodes
        /\ new.x = activeInput[1].x /\ new.y = activeInput[1].y
        /\ new.parentId = activeInput[1].parentId
        /\ new.content = c
        /\ activeInput' = <<>>
        /\ selectedNodeId' = new.id

\* C10: confirming the pending input of a creation with non-blank content
\* appends exactly one node, at the end of the collection, on the pending
\* cell, with the pending parentId (null for the root) and the entered
\* content; the existing nodes are unchanged; afterwards no pending input is
\* open and the new node is selected.
C10_ConfirmAppendsNode == [][C10_Create]_vars

\* a child with content " b" has just been created and selected
C10_Witness ==
  /\ lastEvent.name = "submit"
  /\ onSaveCalls # <<>>
  /\ Len(nodes) >= 2
  /\ onSaveCalls[1].lastModified = nodes[Len(nodes)].timestamp
  /\ nodes[Len(nodes)].content = <<" ", "b">>
  /\ selectedNodeId = nodes[Len(nodes)].id

\* ---------------------------------------------------------------- edit
\* the pending input was opened by handleEditSelected
EditPending == activeInput # <<>> /\ activeInput[1].isEditing

\* indexes of the node the open edit input was opened for (the node on its cell)
EditedIndexes ==
  {i \in DOMAIN nodes : nodes[i].x = activeInput[1].x /\ nodes[i].y = activeInput[1].y}

C11_Confirm ==
  (EditPending /\ lastEvent'.name = "submit") =>
    /\ Len(nodes') = Len(nodes)
    /\ \A i \in DOMAIN nodes :
         \/ nodes'[i] = nodes[i]
         \/ /\ i \in EditedIndexes
            /\ nodes'[i] = [nodes[i] EXCEPT !.content = nodes'[i].content,
                                            !.color = nodes'[i].color]

\* C11: confirming a pending input opened for an edit never creates a node:
\* the number of nodes is unchanged and at most the content and color of the
\* node being edited change; when that node is gone the collection is left
\* as it is.
C11_EditConfirmNeverCreates == [][C11_Confirm]_vars

\* --------------------------------------------------------------- colors
\* a node has just been appended to the collection
Created == Len(nodes') = Len(nodes) + 1

\* number of nodes whose parentId is id
ChildCount(id) == Cardinality({i \in DOMAIN nodes : nodes[i].parentId = id})

C12_Derived ==
  Created =>
    LET new == nodes'[Len(nodes')] IN
      IF new.parentId = Null
        THEN new.color = popup[1].selectedColor
        ELSE LET parent == nodeById(new.parentId)[1]
                 k == ChildCount(parent.id)
                 first == fadeColor(parent.color, 15)
             IN /\ k = 0 => new.color = first
                /\ k >= 1 =>
                     /\ new.color = fadeColor(adjustHue(parent.color, 45 * k), 15)
                     /\ new.color.hue = (first.hue + 45 * k) % 360
                     /\ new.color.fade = first.fade

\* C12: the color of a child created at confirm is fade(parent.color, 0.15)
\* when the parent has no child yet, and fade(adjustHue(parent.color, 45 * k),
\* 0.15) when it has k >= 1 children, so that its hue is 45 * k degrees (mod
\* 360) away from the first child's; the color the popup passes is the new
\* node's color for the root only.
C12_ChildColorFromParent == [][C12_Derived]_vars

\* The states in which a child of the root is about to be confirmed: the root
\* at the centre, k children on cells around it (created in this order, each
\* with the color handleSaveNode gave it), and the pending input of a drop
\* from the root on another free cell around it.
Around == {c \in (0..(GRID_SIZE - 1)) \X (0..(GRID_SIZE - 1)) :
             /\ Abs(c[1] - CENTER_COORD) <= 1
             /\ Abs(c[2] - CENTER_COORD) <= 1
             /\ c # <<CENTER_COORD, CENTER_COORD>>}

\* sequences of at most n distinct cells around the centre
AroundSeqs(n) ==
  {s \in UNION {[1..k -> Around] : k \in 0..n} :
     \A i, j \in DOMAIN s : s[i] = s[j] => i = j}

RootWithChildren(cells) ==
  LET root == [id |-> 1, x |-> CENTER_COORD, y |-> CENTER_COORD,
               content |-> <<"a">>, color |-> BASE_COLORS[1],
               parentId |-> Null, depth |-> 0, timestamp |-> 1]
      child(i) == [id |-> i + 1, x |-> cells[i][1], y |-> cells[i][2],
                   content |-> <<"a">>,
                   color |-> IF i = 1
                               THEN fadeColor(root.color, 15)
                               ELSE fadeColor(adjustHue(root.color, 45 * (i - 1)), 15),
                   parentId |-> 1, depth |-> 1, timestamp |-> i + 1]
  IN <<root>> \o [i \in DOMAIN cells |-> child(i)]

\* the root is about to be confirmed
InitRootPending ==
  /\ nodes = <<>>
  /\ activeInput = <<[x |-> CENTER_COORD, y |-> CENTER_COORD,
                      parentId |-> Null, isEditing |-> FALSE]>>
  /\ selectedNodeId = Null
  /\ dragState = <<>>
  /\ isDraggingRef = FALSE
  /\ popup \in {<<Mounted(BASE_COLORS[i])>> : i \in DOMAIN BASE_COLORS}
  /\ nextId = 1
  /\ now = 1
  /\ onSaveCalls = <<>>
  /\ maps = <<mapData>>
  /\ lastEvent = [name |-> "createRoot"]

InitChildPending ==
  \E cells \in AroundSeqs(MaxIds - 1) :
    /\ Len(cells) >= 1
    /\ nodes = RootWithChildren(SubSeq(cells, 1, Len(cells) - 1))
    /\ activeInput = <<[x |-> cells[Len(cells)][1], y |-> cells[Len(cells)][2],
                        parentId |-> 1, isEditing |-> FALSE]>>
    /\ selectedNodeId = Null
    /\ dragState = <<>>
    /\ isDraggingRef = FALSE
    /\ popup = <<Mounted(BASE_COLORS[1])>>
    /\ nextId = Len(cells) + 1
    /\ now = Len(cells) + 1
    /\ onSaveCalls = <<>>
    /\ maps = <<mapData>>
    /\ lastEvent = [name |-> "pointerup",
                    clientX |-> CellPx(cells[Len(cells)][1]),
                    clientY |-> CellPx(cells[Len(cells)][2]),
                    source |-> 1, moved |-> TRUE]

InitColor == InitRootPending \/ InitChildPending

NextColor == Submit \/ Cancel

SpecColor == InitColor /\ [][NextColor]_vars

\* a second and a third child of the root have been created: their hues are
\* 45 and 90 degrees away from the hue of the first, and none has the color
\* of the popup
C12_Witness ==
  /\ Len(nodes) = 4
  /\ \A i \in 2..4 : nodes[i].parentId = nodes[1].id
  /\ nodes[2].color = fadeColor(nodes[1].color, 15)
  /\ nodes[3].color.hue = (nodes[2].color.hue + 45) % 360
  /\ nodes[4].color.hue = (nodes[2].color.hue + 90) % 360
  /\ nodes[4].color # BASE_COLORS[1]
  /\ lastEvent.name = "submit"

\* the step is the confirm of an edit: handleSaveNode takes its edit path
EditConfirm ==
  /\ EditPending
  /\ selectedNodeId # Null
  /\ lastEvent'.name = "submit"
  /\ onSaveCalls' # <<>>

\* the last event was the confirm of an edit: something was saved by a submit
\* that created no node
EditJustSaved ==
  /\ lastEvent.name = "submit"
  /\ onSaveCalls # <<>>
  /\ nodes # <<>>
  /\ onSaveCalls[1].lastModified > nodes[Len(nodes)].timestamp

C13_Edit ==
  EditConfirm =>
    /\ Len(nodes') = Len(nodes)
    /\ \A i \in DOMAIN nodes :
         IF nodes[i].id = selectedNodeId
           THEN /\ nodes'[i].id = nodes[i].id
                /\ nodes'[i].x = nodes[i].x
                /\ nodes'[i].y = nodes[i].y
                /\ nodes'[i].parentId = nodes[i].parentId
                /\ nodes'[i].depth = nodes[i].depth
                /\ nodes'[i].timestamp = nodes[i].timestamp
                /\ DOMAIN nodes'[i] = DOMAIN nodes[i]
           ELSE nodes'[i] = nodes[i]

\* C13: editing a node changes only that node's content and color: its id, x,
\* y, parentId, depth and timestamp, every other node, and the order and
\* number of the nodes are unchanged.
C13_EditChangesOnlyContentAndColor == [][C13_Edit]_vars

\* the root of a two-node collection has just been edited to " b"
C13_Witness ==
  /\ EditJustSaved
  /\ Len(nodes) = 2
  /\ selectedNodeId = nodes[1].id
  /\ nodes[1].content = <<" ", "b">>
  /\ nodes[2].content = <<"a">>

C14_EditTwice ==
  \A c \in Contents :
    \A col \in {popup[i].selectedColor : i \in DOMAIN popup} :
      (EditConfirm /\ nodes' = UpdatedNodes(c, col)) =>
        UpdatedNodes(c, col)' = nodes'

\* C14: applying the same edit (same id, content and color) to the collection
\* an edit produced yields that collection again.
C14_EditIsIdempotent == [][C14_EditTwice]_vars

\* the only node has just been edited, from "a" or " b" to the other content
C14_Witness ==
  /\ EditJustSaved
  /\ Len(nodes) = 1
  /\ selectedNodeId = nodes[1].id
  /\ activeInput = <<>>
  /\ nextId = 2

\* -------------------------------------------------------------- cancel
C15_CancelStep ==
  (activeInput # <<>> /\ lastEvent'.name = "cancel") =>
    /\ activeInput' = <<>>
    /\ popup' = <<>>
    /\ nodes' = nodes
    /\ selectedNodeId' = selectedNodeId
    /\ onSaveCalls' = <<>>

SavedOnce(calls, ns) ==
  /\ Len(calls) = 1
  /\ calls[1].id = mapData.id
  /\ calls[1].title = mapData.title
  /\ calls[1].nodes = ns

C16_Step ==
  /\ lastEvent'.name = "delete" => SavedOnce(onSaveCalls', nodes')
  /\ lastEvent'.name = "submit" =>
       IF activeInput' = <<>>
         THEN SavedOnce(onSaveCalls', nodes')
         ELSE onSaveCalls' = <<>> /\ nodes' = nodes
  /\ lastEvent'.name \notin {"delete", "submit"} =>
       onSaveCalls' = <<>> /\ nodes' = nodes
  /\ nodes' # nodes => SavedOnce(onSaveCalls', nodes')

C16_Snapshot == onSaveCalls # <<>> => SavedOnce(onSaveCalls, nodes)

\* C16: the confirm of a creation, the confirm of an edit and a deletion call
\* the save callback exactly once, with the id and title of the session's map
\* and the node collection the operation leaves; pointer events, drops,
\* cancel and the opening of an edit never call it; hence the nodes passed to
\* the last call are the editor's node collection.
C16_EveryMutationIsSaved == []C16_Snapshot /\ [][C16_Step]_vars

\* a deletion that left the root alone has just been saved
C16_Witness ==
  /\ lastEvent.name = "delete"
  /\ Len(onSaveCalls) = 1
  /\ onSaveCalls[1].nodes = nodes
  /\ Len(nodes) = 1
  /\ nextId = 3

\* ------------------------------------------------- pending descriptor
\* the open pending input is the one of a placement: it was opened by an
\* accepted drop, or for the root
PlacementPending == activeInput # <<>> /\ ~activeInput[1].isEditing

C17_DescriptorValid ==
  PlacementPending =>
    /\ ~Occupied(activeInput[1].x, activeInput[1].y)
    /\ IF activeInput[1].parentId = Null
         THEN nodes = <<>>
         ELSE LET parent == nodeById(activeInput[1].parentId) IN
                /\ parent # <<>>
                /\ ChebyshevDistance(parent[1], activeInput[1].x, activeInput[1].y) = 1

C17_Confirm ==
  Created =>
    LET new == nodes'[Len(nodes')] IN
      /\ ~Occupied(new.x, new.y)
      /\ new.parentId # Null => nodeById(new.parentId) # <<>>

\* C17: from the acceptance of a placement to its confirm the pending
\* descriptor stays valid whatever events come in between: its cell is
\* unoccupied, its parent exists and is at Chebyshev distance 1 from the
\* cell; and no confirm adds a node on an occupied cell or with a parentId
\* that names no node.
C17_PendingDescriptorStaysValid == []C17_DescriptorValid /\ [][C17_Confirm]_vars

\* a placement is pending while another drag, from another node, has moved
C17_Witness ==
  /\ PlacementPending
  /\ activeInput[1].parentId # Null
  /\ dragState # <<>>
  /\ isDraggingRef
  /\ dragState[1].sourceNodeId # activeInput[1].parentId
  /\ Len(nodes) = 2

\* --------------------------------------------------- interaction states
\* C20 as claimed: the editor is Idle, Dragging or PendingInput, never two of
\* them: no drag is in progress while a pending input is open.
C20_NoDragWhilePending == ~(dragState # <<>> /\ activeInput # <<>>)

C20_Flags == isDraggingRef => dragState # <<>>

C20_Press ==
  lastEvent'.name = "pointerdown" =>
    /\ UNCHANGED <<nodes, activeInput, popup, selectedNodeId>>
    /\ dragState' # dragState => (dragState' # <<>> /\ ~isDraggingRef')

C20_End ==
  (IsRelease /\ dragState # <<>>) =>
    /\ dragState' = <<>>
    /\ ~isDraggingRef'
    /\ \/ activeInput' = activeInput
       \/ activeInput' = <<>> /\ ~lastEvent'.moved
       \/ /\ lastEvent'.moved
          /\ activeInput' # <<>>
          /\ ~activeInput'[1].isEditing
          /\ activeInput'[1].parentId = lastEvent'.source

\* C20 as amended: the drag and the pending input are two components of the
\* state: pressing a node starts a drag whether or not a pending input is
\* open and changes neither the input nor the selection; the movement flag is
\* set only during a drag; the end of a drag leaves the open input as it is,
\* closes it (a click) or replaces it by the input of the accepted drop.
C20_DragIndependentOfInput == []C20_Flags /\ [][C20_Press /\ C20_End]_vars

\* a node has just been pressed while the input of a placement was open
C20_Witness ==
  /\ lastEvent.name = "pointerdown"
  /\ dragState # <<>>
  /\ ~isDraggingRef
  /\ PlacementPending
  /\ activeInput[1].parentId # Null

\* ---------------------------------------------------------- suggestions
\* the suggestion button and the service, from every state in which a child
\* of the root is about to be confirmed
NextService == AiSuggest \/ AiResult \/ Submit \/ Cancel

SpecService == InitChildPending /\ [][NextService]_vars

\* this step delivers the result of a call that met no API_KEY or failed
C19_FailedCall ==
  /\ lastEvent'.name = "aiResult"
  /\ lastEvent'.outcome.kind \in {"noKey", "error"}

C19_Delivered ==
  lastEvent'.name = "aiResult" =>
    /\ popup' # <<>>
    /\ ~popup'[1].isLoadingAi
    /\ UNCHANGED <<nodes, activeInput, selectedNodeId>>

C19_EmptyOnFailure == C19_FailedCall => popup'[1].suggestions = <<>>

C19_WarningOrEmpty ==
  C19_FailedCall =>
    popup'[1].suggestions =
      IF lastEvent'.outcome.kind = "noKey" THEN <<ApiKeyHint>> ELSE <<>>

\* C19 as claimed: when the service has no credential or its call fails, the
\* list delivered to the popup is empty, and the call returns normally.
C19_FailureGivesNoSuggestions == [][C19_Delivered /\ C19_EmptyOnFailure]_vars

\* C19 as amended: a failed call delivers the empty list; a call without
\* credential delivers the one-element list holding the warning to check the
\* API key; in both cases the call returns normally.
C19_FailureGivesWarningOrNothing == [][C19_Delivered /\ C19_WarningOrEmpty]_vars

\* a call without credential has just delivered the warning as a suggestion
C19_Witness ==
  /\ lastEvent.name = "aiResult"
  /\ lastEvent.outcome.kind = "noKey"
  /\ popup # <<>>
  /\ popup[1].suggestions = <<ApiKeyHint>>
  /\ ~popup[1].isLoadingAi

\* the context of a pending input: its parent and its cell
PendingContext(input) == <<input.parentId, input.x, input.y>>

\* this step delivers a result to a popup whose pending input is no longer the
\* one the result was requested for
C18_LateArrival ==
  /\ lastEvent'.name = "aiResult"
  /\ PendingContext(popup[1].request[1].input) # PendingContext(activeInput[1])

C18_Discarded == C18_LateArrival => popup'[1].suggestions = popup[1].suggestions

\* C18: a suggestion result that arrives after the pending input it was
\* requested for was dismissed (cancelled, confirmed, or replaced by a pending
\* input with another parent or cell) is discarded: it does not become the
\* suggestion list of the pending input open at its arrival.
C18_StaleResultDiscarded == [][C18_Discarded]_vars

\* ------------------------------------------------------------ adjacency
\* C21: every node with a parent is at Chebyshev distance exactly 1 from its
\* parent node, also when it was created by a confirm that followed deletions
\* or edits.
C21_ChildAdjacentToParent ==
  \A i \in DOMAIN nodes :
    nodes[i].parentId # Null =>
      \E j \in DOMAIN nodes :
        /\ nodes[j].id = nodes[i].parentId
        /\ ChebyshevDistance(nodes[j], nodes[i].x, nodes[i].y) = 1

\* a child created by the confirm that followed a deletion: four ids were
\* handed out and three nodes are left, the last one just created
C21_Witness ==
  /\ Len(nodes) = 3
  /\ nextId = 5
  /\ lastEvent.name = "submit"
  /\ selectedNodeId = nodes[3].id
  /\ nodes[3].id = 4
  /\ nodes[3].parentId # Null

\* --------------------------------------------------------- branch index
\* C22: no two children of one parent that are in the collection together
\* were created with the same branch index: they did not receive the same
\* hue rotation of their parent's color, so their hues differ.
C22_SiblingsDifferInHue ==
  \A i, j \in DOMAIN nodes :
    (i # j /\ nodes[i].parentId # Null /\ nodes[i].parentId = nodes[j].parentId) =>
      nodes[i].color.hue # nodes[j].color.hue

\* ------------------------------------------- outstanding suggestion request
\* a call of getSuggestedThoughts made by the mounted popup has not returned
RequestOutstanding == popup # <<>> /\ popup[1].isLoadingAi

\* the confirm of the pending input with some non-blank content
C23_ConfirmStep ==
  \E c \in Contents : NonBlank(c) /\ HandleSubmit(c) /\ activeInput' = <<>>

C23_StillEnabled ==
  RequestOutstanding =>
    /\ ENABLED OnCancel
    /\ nextId <= MaxIds => ENABLED C23_ConfirmStep

C23_Arrival ==
  lastEvent'.name = "aiResult" =>
    /\ UNCHANGED <<nodes, activeInput, selectedNodeId, dragState, isDraggingRef,
                   nextId, now>>
    /\ onSaveCalls' = <<>>
    /\ popup' # <<>>
    /\ popup' = <<[popup[1] EXCEPT !.suggestions = popup'[1].suggestions,
                                   !.isLoadingAi = FALSE]>>

\* C23: while a suggestion request is outstanding the pending input can be
\* confirmed and cancelled; the arrival of the result changes the popup's
\* suggestion list and loading flag and nothing else: not the nodes, the
\* pending input, the selection or the drag.
C23_SuggestionsNeverBlock == []C23_StillEnabled /\ [][C23_Arrival]_vars

\* a result has just arrived while a drag with movement was in progress
C23_Witness ==
  /\ lastEvent.name = "aiResult"
  /\ popup # <<>>
  /\ popup[1].suggestions # <<>>
  /\ dragState # <<>>
  /\ isDraggingRef
  /\ activeInput # <<>>

\* ---------------------------------------------------------- pointer move
C24_Move ==
  lastEvent'.name = "pointermove" =>
    /\ UNCHANGED <<nodes, selectedNodeId, activeInput, popup, nextId, now>>
    /\ onSaveCalls' = <<>>
    /\ IF dragState = <<>>
         THEN UNCHANGED <<dragState, isDraggingRef>>
         ELSE /\ dragState' # <<>>
              /\ dragState'[1].sourceNodeId = dragState[1].sourceNodeId
              /\ \E p \in MovePoints :
                   dragState'[1].currentPos = [x |-> PointerPos(p[1]),
                                               y |-> PointerPos(p[2])]
              /\ isDraggingRef'

\* C24: a pointermove during a drag sets the drag's current position to the
\* pointer's and sets the moved flag; the drag's source node id, the nodes,
\* the selection and the pending input are unchanged; a pointermove without a
\* drag changes nothing.
C24_MoveUpdatesPositionOnly == [][C24_Move]_vars

\* the pointer has just moved during a drag from the selected node, whose
\* edit input is open
C24_Witness ==
  /\ lastEvent.name = "pointermove"
  /\ dragState # <<>>
  /\ isDraggingRef
  /\ dragState[1].currentPos.x = PointerPos(1)
  /\ EditPending
  /\ selectedNodeId = dragState[1].sourceNodeId

\* ------------------------------------------------------------ moved flag
C25_MovedOnlyWhileDragging == isDraggingRef => dragState # <<>>

C25_ReleaseEndsDrag ==
  (IsRelease /\ dragState # <<>>) => (dragState' = <<>> /\ ~isDraggingRef')

C25_AnyPress == lastEvent'.name = "pointerdown" => ~isDraggingRef'

C25_Press ==
  lastEvent'.name = "pointerdown" =>
    \A b \in Buttons, id \in NodeIds :
      HandlePointerDown(b, id) =>
        IF b = 0
          THEN /\ dragState' # <<>>
               /\ dragState'[1].sourceNodeId = id
               /\ ~isDraggingRef'
          ELSE UNCHANGED <<dragState, isDraggingRef>>

\* C25 as claimed: every pointerup or pointerleave during a drag clears the
\* drag state and the moved flag, and every pointerdown resets the moved flag,
\* so that the flag is set only while a drag is in progress.
C25_EveryPressResetsMoved ==
  []C25_MovedOnlyWhileDragging /\ [][C25_ReleaseEndsDrag /\ C25_AnyPress]_vars

\* C25 as amended: every pointerup or pointerleave during a drag clears the
\* drag state and the moved flag; every pointerdown of the primary button on a
\* node starts a drag from that node with the moved flag reset, and a
\* pointerdown of another button changes neither the drag nor the flag; the
\* flag is set only while a drag is in progress.
C25_PrimaryPressResetsMoved ==
  []C25_MovedOnlyWhileDragging /\ [][C25_ReleaseEndsDrag /\ C25_Press]_vars

\* a drag with movement has just been ended by the pointer leaving the grid
C25_Witness ==
  /\ lastEvent.name = "pointerleave"
  /\ lastEvent.moved
  /\ lastEvent.source # Null
  /\ dragState = <<>>
  /\ ~isDraggingRef

\* ------------------------------------------------------------- selection
\* C26: the selected node id is null or the id of a node of the collection,
\* whatever the interleaving of pointer events and deletions.
C26_SelectionIsPresent ==
  selectedNodeId = Null \/ selectedNodeId \in NodeIdsPresent

\* --------------------------------------------------------- blank content
C27_BlankConfirm ==
  \A c \in Contents :
    (~NonBlank(c) /\ lastEvent'.name = "submit" /\ HandleSubmit(c)) =>
      /\ UNCHANGED <<nodes, activeInput, popup, selectedNodeId>>
      /\ activeInput' # <<>>
      /\ onSaveCalls' = <<>>

C27_ContentNonBlank == \A i \in DOMAIN nodes : NonBlank(nodes[i].content)

\* C27: a confirm with empty or whitespace-only content creates and edits no
\* node, leaves the pending input open and saves nothing; hence every node of
\* the collection has non-blank content.
C27_BlankConfirmIsNoOp == []C27_ContentNonBlank /\ [][C27_BlankConfirm]_vars

\* blank content has just been submitted to the edit input of the selected
\* node, which is still open
C27_Witness ==
  /\ lastEvent.name = "submit"
  /\ onSaveCalls = <<>>
  /\ EditPending
  /\ selectedNodeId # Null
  /\ selectedNode # <<>>

\* ---------------------------------------------------------------- C28
C28_Save == lastEvent'.name = "saveMap"

\* C28 as stated: a save replaces exactly the entry of the list whose id is
\* the snapshot's by the snapshot, and leaves the other entries, their order
\* and their number as they were (no entry with that id: nothing changes).
C28_EntryBecomesSnapshot ==
  [][C28_Save =>
       /\ Len(maps') = Len(maps)
       /\ \A i \in DOMAIN maps :
            maps'[i] = IF maps[i].id = lastEvent'.updatedMap.id
                         THEN lastEvent'.updatedMap
                         ELSE maps[i]]_vars

\* the title a snapshot u is stored with: its own, unless that one starts
\* with "Session" or "会话" and u has a node of depth 0; then the first
\* TitleLimit characters of the content of the first such node, followed by
\* "..." when the content is longer
C28_StoredTitle(u) ==
  LET centres == {i \in DOMAIN u.nodes : u.nodes[i].depth = 0}
      first == CHOOSE i \in centres : \A j \in centres : i <= j
      content == u.nodes[first].content
      default == \E p \in {<<"S", "e", "s", "s", "i", "o", "n">>, <<"U+4F1A", "U+8BDD">>} :
                   /\ Len(u.title) >= Len(p)
                   /\ \A k \in DOMAIN p : u.title[k] = p[k]
  IN IF default /\ centres # {}
       THEN IF Len(content) > TitleLimit
              THEN [k \in 1..(TitleLimit + 3) |->
                      IF k <= TitleLimit THEN content[k] ELSE "."]
              ELSE content
       ELSE u.title

\* C28, amended: a save replaces exactly the entry of the list whose id is the
\* snapshot's by the snapshot under its stored title (id, nodes and
\* lastModified are the snapshot's), and leaves the other entries, their
\* order and their number as they were; with no entry of that id the list
\* does not change.
C28_EntryBecomesRetitledSnapshot ==
  [][C28_Save =>
       /\ Len(maps') = Len(maps)
       /\ \A i \in DOMAIN maps :
            maps'[i] = IF maps[i].id = lastEvent'.updatedMap.id
                         THEN [lastEvent'.updatedMap EXCEPT
                                 !.title = C28_StoredTitle(lastEvent'.updatedMap)]
                         ELSE maps[i]]_vars

\* a save has replaced one of two entries by a snapshot whose title was cut
\* from a long centre content, next to an entry of another id
C28_Witness ==
  /\ lastEvent.name = "saveMap"
  /\ Len(maps) = 2
  /\ \E i, j \in DOMAIN maps :
       /\ i # j
       /\ maps[i].id = lastEvent.updatedMap.id
       /\ maps[i].nodes = lastEvent.updatedMap.nodes
       /\ maps[i].title # lastEvent.updatedMap.title
       /\ Len(maps[i].title) = TitleLimit + 3
       /\ maps[j].id # lastEvent.updatedMap.id

====
